---- MODULE Spec2Model ----
(***************************************************************************)
(* Model of the task and pomodoro HTTP service of src/main.py.             *)
(*                                                                         *)
(* State: the two module-level lists `tasks` and `pomodoro_sessions`, the  *)
(* wall clock read by datetime.now(), and the response of the last         *)
(* request.  One operator per handler, one action per route; a request     *)
(* whose body or query does not pass the pydantic/Query validation is      *)
(* answered 422 before the handler runs.  Requests are handled one at a    *)
(* time.  `created` counts the successful creates, under SpecCounted only. *)
(*                                                                         *)
(* Optional[str] values are sequences of length at most one: <<>> is None, *)
(* <<s>> is the string s.  Times are whole minutes.                        *)
(***************************************************************************)
EXTENDS Integers, Sequences, FiniteSets, TLC

VARIABLES tasks, pomodoro_sessions, now, resp, created, pending

vars == <<tasks, pomodoro_sessions, now, resp, created, pending>>

-----------------------------------------------------------------------------
(* Bounds of the model *)

\* successful creates explored
MaxCreates == 3
\* sessions explored
MaxSessions == 2
\* minutes of clock explored
MaxClock == 1

-----------------------------------------------------------------------------
(* Program constants *)

TitleMinLength == 3
TitleMaxLength == 100
DescriptionMaxLength == 300
PomodoroMinutes == 25

Statuses == {"TODO", "in_progress", "done"}

None == <<>>
Some(s) == <<s>>

-----------------------------------------------------------------------------
(* Request inputs *)

\* 101 characters
LongTitle == "aaaaaaaaaaaaaaaaaaaaaaaaaaaaaaaaaaaaaaaaaaaaaaaaaaaaaaaaaaaaaaaaaaaaaaaaaaaaaaaaaaaaaaaaaaaaaaaaaaaaa"

\* 301 characters
LongDescription == LongTitle \o LongTitle \o "aaaaaaaaaaaaaaaaaaaaaaaaaaaaaaaaaaaaaaaaaaaaaaaaaaaaaaaaaaaaaaaaaaaaaaaaaaaaaaaaaaaaaaaaaaaaaaaaaaa"

Body(title, description, status) ==
    [title |-> title, description |-> description, status |-> status]

\* request bodies that pass the validation of Task
ValidBodies ==
    { Body("abc", None, None), Body("report", None, None),
      Body("abc", Some("note"), Some("done")) }

\* request bodies that the validation of Task rejects
InvalidBodies ==
    { Body("ab", None, None), Body(LongTitle, None, None),
      Body("abc", Some(LongDescription), None), Body("abc", None, Some("Done")) }

TaskBodies == ValidBodies \cup InvalidBodies

\* the status query parameter of GET /tasks
FilterInputs == {None, Some("TODO"), Some("in_progress"), Some("done"), Some("Done")}

\* path and query task ids; 3 is never assigned within these inputs' titles
TaskIdInputs == 1 .. 3

-----------------------------------------------------------------------------
(* class Task(BaseModel) *)

\* Field(..., min_length=3, max_length=100)
TitleValid(title) == Len(title) >= TitleMinLength /\ Len(title) <= TitleMaxLength

\* Field(None, max_length=300)
DescriptionValid(description) ==
    description = None \/ Len(description[1]) <= DescriptionMaxLength

\* pattern="^(TODO|in_progress|done)$"
StatusPattern(status) == status \in Statuses

\* Field("TODO", ...): the default is taken when the body has no status
StatusOrDefault(status) == IF status = None THEN "TODO" ELSE status[1]

TaskValid(title, description, status) ==
    /\ TitleValid(title)
    /\ DescriptionValid(description)
    /\ (status = None \/ StatusPattern(status[1]))

\* task.dict()
TaskDict(title, description, status) ==
    [title |-> title, description |-> description, status |-> StatusOrDefault(status)]

-----------------------------------------------------------------------------
(* Responses *)

\* The JSON answer of a request.  `tasks` holds the task or the tasks of the
\* answer, `task_id` and `stats` the fields of the pomodoro answers.
Response(op, code, message) ==
    [op |-> op, code |-> code, message |-> message,
     tasks |-> <<>>, task_id |-> 0, stats |-> [k \in {} |-> 0]]

\* return {"message": ...}
Ok(op, message) == Response(op, 200, message)

\* return {"message": ..., "task": task}, return task, return [tasks]
OkTasks(op, message, list) == [Response(op, 200, message) EXCEPT !.tasks = list]

\* return {"message": ..., "task_id": task_id}
OkTaskId(op, message, task_id) == [Response(op, 200, message) EXCEPT !.task_id = task_id]

\* return {"pomodoro_stats": stats}
OkStats(op, stats) == [Response(op, 200, "") EXCEPT !.stats = stats]

\* raise HTTPException(status_code=code, detail=detail)
HTTPException(op, code, detail) == Response(op, code, detail)

\* rejected by the request validation, the handler is not called
ValidationError(op) == Response(op, 422, "validation")

-----------------------------------------------------------------------------
(* Scans of the two lists *)

\* slip: the path parameter taken as a position in the list
find_task_by_position(task_id) == IF task_id \in 1 .. Len(tasks) THEN task_id ELSE 0

\* next((task for task in tasks if task["id"] == task_id), None):
\* the index of the first match, 0 for None
find_task(task_id) ==
    IF \E i \in 1 .. Len(tasks) : tasks[i].id = task_id
    THEN CHOOSE i \in 1 .. Len(tasks) :
            /\ tasks[i].id = task_id
            /\ \A j \in 1 .. (i - 1) : tasks[j].id # task_id
    ELSE 0

\* slip: only the first task is compared
title_taken_first(title) == Len(tasks) > 0 /\ tasks[1].title = title

\* slip: only the newest task is compared
title_taken_last(title) == Len(tasks) > 0 /\ tasks[Len(tasks)].title = title

\* any(t["title"] == title for t in tasks)
title_taken(title) == \E i \in 1 .. Len(tasks) : tasks[i].title = title

\* task_id = len(tasks) + 1
next_task_id == Len(tasks) + 1

\* slip: the `not` is missing
has_active_session_completed(task_id) ==
    \E i \in 1 .. Len(pomodoro_sessions) :
        pomodoro_sessions[i].task_id = task_id /\ pomodoro_sessions[i].completed

\* any(session["task_id"] == task_id and not session["completed"] for session in pomodoro_sessions)
has_active_session(task_id) ==
    \E i \in 1 .. Len(pomodoro_sessions) :
        pomodoro_sessions[i].task_id = task_id /\ ~pomodoro_sessions[i].completed

\* next((session for session in pomodoro_sessions
\*       if session["task_id"] == task_id and not session["completed"]), None)
find_active_session(task_id) ==
    IF \E i \in 1 .. Len(pomodoro_sessions) :
          pomodoro_sessions[i].task_id = task_id /\ ~pomodoro_sessions[i].completed
    THEN CHOOSE i \in 1 .. Len(pomodoro_sessions) :
            /\ pomodoro_sessions[i].task_id = task_id
            /\ ~pomodoro_sessions[i].completed
            /\ \A j \in 1 .. (i - 1) :
                  ~(pomodoro_sessions[j].task_id = task_id /\ ~pomodoro_sessions[j].completed)
    ELSE 0

\* slip: the rebuilt list is dropped and the old one stays
tasks_without_id_unassigned(seq, task_id, i) == seq

\* tasks = [t for t in tasks if t["id"] != task_id]
RECURSIVE tasks_without_id(_, _, _)
tasks_without_id(seq, task_id, i) ==
    IF i > Len(seq) THEN <<>>
    ELSE (IF seq[i].id # task_id THEN <<seq[i]>> ELSE <<>>)
         \o tasks_without_id(seq, task_id, i + 1)

\* slip: the matching tasks are collected newest first
RECURSIVE tasks_with_status_reversed(_, _, _)
tasks_with_status_reversed(seq, status, i) ==
    IF i > Len(seq) THEN <<>>
    ELSE tasks_with_status_reversed(seq, status, i + 1)
         \o (IF seq[i].status = status THEN <<seq[i]>> ELSE <<>>)

\* [task for task in tasks if task["status"] == status]
RECURSIVE tasks_with_status(_, _, _)
tasks_with_status(seq, status, i) ==
    IF i > Len(seq) THEN <<>>
    ELSE (IF seq[i].status = status THEN <<seq[i]>> ELSE <<>>)
         \o tasks_with_status(seq, status, i + 1)

\* slip: the status of the body is not copied
updated_record_keeps_status(task, title, description, status) ==
    [id |-> task.id, title |-> title, description |-> description, status |-> task.status]

\* task.update(updated_task.dict()): the keys of the body overwrite, "id" stays
updated_record(task, title, description, status) ==
    [id |-> task.id, title |-> title, description |-> description,
     status |-> StatusOrDefault(status)]

\* slip: the length of the timer is taken in seconds
new_session_seconds(task_id, start_time) ==
    [task_id |-> task_id, start_time |-> start_time,
     end_time |-> start_time + PomodoroMinutes * 60, completed |-> FALSE]

\* the dict appended by create_pomodoro
new_session(task_id, start_time) ==
    [task_id |-> task_id, start_time |-> start_time,
     end_time |-> start_time + PomodoroMinutes, completed |-> FALSE]

\* slip: the scheduled end is kept
stopped_session_keeps_end(session, stop_time) == [session EXCEPT !.completed = TRUE]

\* slip: the stop also moves the start to the instant of the stop
stopped_session_restarts(session, stop_time) ==
    [session EXCEPT !.completed = TRUE, !.start_time = stop_time, !.end_time = stop_time]

\* session["completed"] = True; session["end_time"] = datetime.now()
stopped_session(session, stop_time) ==
    [session EXCEPT !.completed = TRUE, !.end_time = stop_time]

-----------------------------------------------------------------------------
(* GET /pomodoro/stats *)

\* slip: the completed test is missing
stats_add_all(stats, session) ==
    LET task_id == session.task_id
        old == IF task_id \in DOMAIN stats THEN stats[task_id]
               ELSE [count |-> 0, total_time |-> 0]
        new == [count |-> old.count + 1,
                total_time |-> old.total_time + (session.end_time - session.start_time)]
    IN [k \in (DOMAIN stats) \cup {task_id} |-> IF k = task_id THEN new ELSE stats[k]]

\* one turn of the loop over pomodoro_sessions
stats_add(stats, session) ==
    IF ~session.completed THEN stats
    ELSE LET task_id == session.task_id
             old == IF task_id \in DOMAIN stats THEN stats[task_id]
                    ELSE [count |-> 0, total_time |-> 0]
             new == [count |-> old.count + 1,
                     total_time |-> old.total_time + (session.end_time - session.start_time)]
         IN [k \in (DOMAIN stats) \cup {task_id} |-> IF k = task_id THEN new ELSE stats[k]]

RECURSIVE stats_loop(_, _, _)
stats_loop(sessions, i, stats) ==
    IF i > Len(sessions) THEN stats
    ELSE stats_loop(sessions, i + 1, stats_add(stats, sessions[i]))

pomodoro_stats(sessions) == stats_loop(sessions, 1, [k \in {} |-> 0])

-----------------------------------------------------------------------------
(* Initial state: the module has just been imported *)

\* the threads that run the handlers, and a thread between two requests
Workers == {"w1", "w2"}

Idle == [op |-> "idle", title |-> "", description |-> None, status |-> None, task_id |-> 0]

Init ==
    /\ tasks = <<>>
    /\ pomodoro_sessions = <<>>
    /\ now = 0
    /\ created = 0
    /\ resp = Ok("start", "")
    /\ pending = [w \in Workers |-> Idle]

-----------------------------------------------------------------------------
(* Handlers: what a call does to the two lists, and its answer *)

Outcome(new_tasks, new_sessions, response) ==
    [tasks |-> new_tasks, pomodoro_sessions |-> new_sessions, resp |-> response]

\* an exception or a plain return leaves the lists as they are
Answer(response) == Outcome(tasks, pomodoro_sessions, response)

\* def create_task(task: Task)
create_task(title, description, status) ==
    IF title_taken(title)
    THEN Answer(HTTPException("create_task", 400, "Task title must be unique."))
    ELSE LET task_data == [id |-> next_task_id] @@ TaskDict(title, description, status)
         IN Outcome(Append(tasks, task_data), pomodoro_sessions,
                    OkTasks("create_task", "Task created successfully", <<task_data>>))

\* def get_tasks(status)
get_tasks(status) ==
    IF status # None
    THEN Answer(OkTasks("get_tasks", "", tasks_with_status(tasks, status[1], 1)))
    ELSE Answer(OkTasks("get_tasks", "", tasks))

\* def get_task(task_id)
get_task(task_id) ==
    LET task == find_task(task_id) IN
    IF task = 0
    THEN Answer(HTTPException("get_task", 404, "Task not found."))
    ELSE Answer(OkTasks("get_task", "", <<tasks[task]>>))

\* def update_task(task_id, updated_task: Task)
update_task(task_id, title, description, status) ==
    LET task == find_task(task_id) IN
    IF task = 0
    THEN Answer(HTTPException("update_task", 404, "Task not found."))
    ELSE IF title # tasks[task].title /\ title_taken(title)
    THEN Answer(HTTPException("update_task", 400, "Task title must be unique."))
    ELSE LET updated == updated_record(tasks[task], title, description, status)
         IN Outcome([tasks EXCEPT ![task] = updated], pomodoro_sessions,
                    OkTasks("update_task", "Task updated successfully", <<updated>>))

\* slip: a delete that also drops the sessions of the deleted id
RECURSIVE sessions_without_task(_, _, _)
sessions_without_task(seq, task_id, i) ==
    IF i > Len(seq) THEN <<>>
    ELSE IF seq[i].task_id # task_id
    THEN <<seq[i]>> \o sessions_without_task(seq, task_id, i + 1)
    ELSE sessions_without_task(seq, task_id, i + 1)

delete_task_cascade(task_id) ==
    LET task == find_task(task_id) IN
    IF task = 0
    THEN Answer(HTTPException("delete_task", 404, "Task not found."))
    ELSE Outcome(tasks_without_id(tasks, task_id, 1),
                 sessions_without_task(pomodoro_sessions, task_id, 1),
                 Ok("delete_task", "Task deleted successfully."))

\* def delete_task(task_id)
delete_task(task_id) ==
    LET task == find_task(task_id) IN
    IF task = 0
    THEN Answer(HTTPException("delete_task", 404, "Task not found."))
    ELSE Outcome(tasks_without_id(tasks, task_id, 1), pomodoro_sessions,
                 Ok("delete_task", "Task deleted successfully."))

\* def create_pomodoro(task_id); start_time is the reading of datetime.now()
create_pomodoro(task_id, start_time) ==
    LET task == find_task(task_id) IN
    IF task = 0
    THEN Answer(HTTPException("create_pomodoro", 404, "Task not found."))
    ELSE IF has_active_session(task_id)
    THEN Answer(HTTPException("create_pomodoro", 400,
                    "An active Pomodoro timer already exists for this task."))
    ELSE Outcome(tasks, Append(pomodoro_sessions, new_session(task_id, start_time)),
                 OkTaskId("create_pomodoro", "Pomodoro timer created successfully.", task_id))

\* def stop_pomodoro(task_id); stop_time is the reading of datetime.now()
stop_pomodoro(task_id, stop_time) ==
    LET session == find_active_session(task_id) IN
    IF session = 0
    THEN Answer(HTTPException("stop_pomodoro", 400,
                    "No active Pomodoro timer found for this task."))
    ELSE Outcome(tasks,
                 [pomodoro_sessions EXCEPT ![session] = stopped_session(@, stop_time)],
                 Ok("stop_pomodoro", "Pomodoro timer stopped successfully."))

\* def get_pomodoro_stats()
get_pomodoro_stats == Answer(OkStats("get_pomodoro_stats", pomodoro_stats(pomodoro_sessions)))

-----------------------------------------------------------------------------
(* Requests: the validation of the body or query, then the handler *)

\* datetime.now(): `now` is the last reading, the next one is not earlier
ClockReadings == { t \in now .. (now + 1) : t <= MaxClock }

\* a handler run as one step: no request is left between its test and its append
Apply(out) ==
    /\ tasks' = out.tasks
    /\ pomodoro_sessions' = out.pomodoro_sessions
    /\ resp' = out.resp
    /\ UNCHANGED pending

\* POST /tasks
PostTasks(title, description, status) ==
    /\ IF ~TaskValid(title, description, status)
       THEN Apply(Answer(ValidationError("create_task")))
       ELSE Apply(create_task(title, description, status))
    /\ UNCHANGED <<now, created>>

\* GET /tasks
GetTasks(status) ==
    /\ IF status # None /\ ~StatusPattern(status[1])
       THEN Apply(Answer(ValidationError("get_tasks")))
       ELSE Apply(get_tasks(status))
    /\ UNCHANGED <<now, created>>

\* GET /tasks/{task_id}
GetTask(task_id) == Apply(get_task(task_id)) /\ UNCHANGED <<now, created>>

\* PUT /tasks/{task_id}
PutTask(task_id, title, description, status) ==
    /\ IF ~TaskValid(title, description, status)
       THEN Apply(Answer(ValidationError("update_task")))
       ELSE Apply(update_task(task_id, title, description, status))
    /\ UNCHANGED <<now, created>>

\* DELETE /tasks/{task_id}
DeleteTask(task_id) == Apply(delete_task(task_id)) /\ UNCHANGED <<now, created>>

\* POST /pomodoro; the clock is read after the two tests
PostPomodoro(task_id) ==
    \E t \in ClockReadings :
        LET out == create_pomodoro(task_id, t) IN
        /\ Len(out.pomodoro_sessions) <= MaxSessions
        /\ Apply(out)
        /\ now' = IF out.resp.code = 200 THEN t ELSE now
        /\ UNCHANGED created

\* POST /pomodoro/{task_id}/stop; the clock is read when a session was found
PostPomodoroStop(task_id) ==
    \E t \in ClockReadings :
        LET out == stop_pomodoro(task_id, t) IN
        /\ Apply(out)
        /\ now' = IF out.resp.code = 200 THEN t ELSE now
        /\ UNCHANGED created

\* GET /pomodoro/stats
GetPomodoroStats == Apply(get_pomodoro_stats) /\ UNCHANGED <<now, created>>

Next ==
    \/ \E body \in TaskBodies : PostTasks(body.title, body.description, body.status)
    \/ \E status \in FilterInputs : GetTasks(status)
    \/ \E task_id \in TaskIdInputs : GetTask(task_id)
    \/ \E task_id \in TaskIdInputs, body \in TaskBodies :
          PutTask(task_id, body.title, body.description, body.status)
    \/ \E task_id \in TaskIdInputs : DeleteTask(task_id)
    \/ \E task_id \in TaskIdInputs : PostPomodoro(task_id)
    \/ \E task_id \in TaskIdInputs : PostPomodoroStop(task_id)
    \/ GetPomodoroStats

Spec == Init /\ [][Next]_vars

-----------------------------------------------------------------------------
(* The same service with the successful creates counted in `created`; the  *)
(* count is not a part of the program, only of what C2 says about it.      *)

PostTasksCounted(title, description, status) ==
    /\ IF ~TaskValid(title, description, status)
       THEN Apply(Answer(ValidationError("create_task")))
       ELSE Apply(create_task(title, description, status))
    /\ created' = IF resp'.code = 200 THEN created + 1 ELSE created
    /\ created' <= MaxCreates
    /\ UNCHANGED now

NextCounted ==
    \/ \E body \in TaskBodies : PostTasksCounted(body.title, body.description, body.status)
    \/ \E status \in FilterInputs : GetTasks(status)
    \/ \E task_id \in TaskIdInputs : GetTask(task_id)
    \/ \E task_id \in TaskIdInputs, body \in TaskBodies :
          PutTask(task_id, body.title, body.description, body.status)
    \/ \E task_id \in TaskIdInputs : DeleteTask(task_id)
    \/ \E task_id \in TaskIdInputs : PostPomodoro(task_id)
    \/ \E task_id \in TaskIdInputs : PostPomodoroStop(task_id)
    \/ GetPomodoroStats

SpecCounted == Init /\ [][NextCounted]_vars

-----------------------------------------------------------------------------
(* Two requests at a time.  create_task and create_pomodoro are plain def  *)
(* handlers, which the framework runs on worker threads; the test of a     *)
(* handler and its append are separate steps, and a thread that passed the *)
(* test holds its request in `pending` until it appends.                   *)

\* create_task up to the title test
CreateCheck(w, title, description, status) ==
    /\ pending[w] = Idle
    /\ IF ~TaskValid(title, description, status)
       THEN resp' = ValidationError("create_task") /\ UNCHANGED pending
       ELSE IF title_taken(title)
       THEN resp' = HTTPException("create_task", 400, "Task title must be unique.")
            /\ UNCHANGED pending
       ELSE /\ pending' = [pending EXCEPT ![w] =
                              [op |-> "create_task", title |-> title,
                               description |-> description, status |-> status,
                               task_id |-> 0]]
            /\ UNCHANGED resp
    /\ UNCHANGED <<tasks, pomodoro_sessions, now, created>>

\* create_task from the id to the return
CreateAppend(w) ==
    /\ pending[w].op = "create_task"
    /\ LET task_data == [id |-> next_task_id]
                            @@ TaskDict(pending[w].title, pending[w].description,
                                        pending[w].status)
       IN /\ tasks' = Append(tasks, task_data)
          /\ resp' = OkTasks("create_task", "Task created successfully", <<task_data>>)
    /\ pending' = [pending EXCEPT ![w] = Idle]
    /\ UNCHANGED <<pomodoro_sessions, now, created>>

\* create_pomodoro up to the test for an active session
StartCheck(w, task_id) ==
    /\ pending[w] = Idle
    /\ IF find_task(task_id) = 0
       THEN resp' = HTTPException("create_pomodoro", 404, "Task not found.")
            /\ UNCHANGED pending
       ELSE IF has_active_session(task_id)
       THEN resp' = HTTPException("create_pomodoro", 400,
                        "An active Pomodoro timer already exists for this task.")
            /\ UNCHANGED pending
       ELSE /\ pending' = [pending EXCEPT ![w] = [Idle EXCEPT !.op = "create_pomodoro",
                                                             !.task_id = task_id]]
            /\ UNCHANGED resp
    /\ UNCHANGED <<tasks, pomodoro_sessions, now, created>>

\* create_pomodoro from the reading of the clock to the return
StartAppend(w) ==
    /\ pending[w].op = "create_pomodoro"
    /\ Len(pomodoro_sessions) < MaxSessions
    /\ \E t \in ClockReadings :
          /\ pomodoro_sessions' =
                 Append(pomodoro_sessions, new_session(pending[w].task_id, t))
          /\ now' = t
    /\ resp' = OkTaskId("create_pomodoro", "Pomodoro timer created successfully.",
                        pending[w].task_id)
    /\ pending' = [pending EXCEPT ![w] = Idle]
    /\ UNCHANGED <<tasks, created>>

NextConcurrent ==
    \/ \E w \in Workers, body \in TaskBodies :
          CreateCheck(w, body.title, body.description, body.status)
    \/ \E w \in Workers : CreateAppend(w)
    \/ \E w \in Workers, task_id \in TaskIdInputs : StartCheck(w, task_id)
    \/ \E w \in Workers : StartAppend(w)

SpecConcurrent == Init /\ [][NextConcurrent]_vars

-----------------------------------------------------------------------------
(* Vocabulary of the properties *)

TaskIds == { tasks[i].id : i \in 1 .. Len(tasks) }

HasTask(task_id) == \E i \in 1 .. Len(tasks) : tasks[i].id = task_id

TitleInUse(title) == \E i \in 1 .. Len(tasks) : tasks[i].title = title

ActiveIndexes(task_id) ==
    { i \in 1 .. Len(pomodoro_sessions) :
        pomodoro_sessions[i].task_id = task_id /\ ~pomodoro_sessions[i].completed }

CompletedIndexes(task_id) ==
    { i \in 1 .. Len(pomodoro_sessions) :
        pomodoro_sessions[i].task_id = task_id /\ pomodoro_sessions[i].completed }

-----------------------------------------------------------------------------
(* C1: no two tasks of the collection have the same id.  The code takes    *)
(* len(tasks) + 1 as the new id, so after a delete the id of a task still  *)
(* in the list is assigned again and this statement is violated.           *)
UniqueIds ==
    \A i, j \in 1 .. Len(tasks) : i # j => tasks[i].id # tasks[j].id

(* C2: the k-th successful create returns id = k, the number of tasks      *)
(* created so far, also after deletes (under SpecCounted).  Violated by    *)
(* the code: the returned id is the current length of the list plus one.   *)
CreateReturnsCreatedCount ==
    (resp.op = "create_task" /\ resp.code = 200) => resp.tasks[1].id = created

(* C3: no two tasks of the collection have the same title.                 *)
UniqueTitles ==
    \A i, j \in 1 .. Len(tasks) : i # j => tasks[i].title # tasks[j].title

\* two tasks are held and a request with the other task's title was refused
UniqueTitlesWitness ==
    /\ Len(tasks) = 2
    /\ resp.op \in {"create_task", "update_task"}
    /\ resp.code = 400

(* C4: for each task_id at most one session has completed = false.         *)
OneActiveSessionPerTask ==
    \A task_id \in TaskIdInputs : Cardinality(ActiveIndexes(task_id)) <= 1

\* a task has a completed and an active session, and a further start was refused
OneActiveSessionWitness ==
    \E task_id \in TaskIdInputs :
        /\ CompletedIndexes(task_id) # {}
        /\ ActiveIndexes(task_id) # {}
        /\ resp.op = "create_pomodoro"
        /\ resp.code = 400

\* the lists are as before the call
Kept(out) == out.tasks = tasks /\ out.pomodoro_sessions = pomodoro_sessions

(* C5: a create whose title is the title of a task of the collection is   *)
(* answered 400 "Task title must be unique.", whatever the description and *)
(* status of the (schema-valid) body, and changes neither collection.      *)
DuplicateCreateRefused ==
    \A body \in ValidBodies :
        TitleInUse(body.title) =>
            LET out == create_task(body.title, body.description, body.status) IN
            /\ out.resp.code = 400
            /\ out.resp.message = "Task title must be unique."
            /\ Kept(out)

\* a create was refused for its title; the held task differs from a body of that title
DuplicateCreateWitness ==
    /\ resp.op = "create_task"
    /\ resp.code = 400
    /\ resp.message = "Task title must be unique."
    /\ \E i \in 1 .. Len(tasks), body \in ValidBodies :
          tasks[i].title = body.title /\ tasks[i].description # body.description

\* a start appends one active session of the task_id and changes nothing else
Started(out, task_id) ==
    /\ out.resp.code = 200
    /\ out.tasks = tasks
    /\ Len(out.pomodoro_sessions) = Len(pomodoro_sessions) + 1
    /\ SubSeq(out.pomodoro_sessions, 1, Len(pomodoro_sessions)) = pomodoro_sessions
    /\ out.pomodoro_sessions[Len(out.pomodoro_sessions)].task_id = task_id
    /\ ~out.pomodoro_sessions[Len(out.pomodoro_sessions)].completed

(* C6 as stated: a start is answered NotFound when no task has the id, is  *)
(* answered ActiveTimerExists when a session of the id is active, changes  *)
(* nothing in both cases, and otherwise appends one active session.        *)
StartOutcomesAsStated ==
    \A task_id \in TaskIdInputs, t \in ClockReadings :
        LET out == create_pomodoro(task_id, t) IN
        /\ ~HasTask(task_id) =>
              (out.resp.code = 404 /\ out.resp.message = "Task not found." /\ Kept(out))
        /\ ActiveIndexes(task_id) # {} =>
              /\ out.resp.code = 400
              /\ out.resp.message = "An active Pomodoro timer already exists for this task."
              /\ Kept(out)
        /\ (HasTask(task_id) /\ ActiveIndexes(task_id) = {}) => Started(out, task_id)

(* C6 amended: NotFound comes first.  A start is answered NotFound when no *)
(* task has the id (also when a session of the id is still active), and    *)
(* ActiveTimerExists when a task has the id and a session of the id is     *)
(* active; both change nothing; otherwise one active session is appended.  *)
StartOutcomes ==
    \A task_id \in TaskIdInputs, t \in ClockReadings :
        LET out == create_pomodoro(task_id, t) IN
        /\ ~HasTask(task_id) =>
              (out.resp.code = 404 /\ out.resp.message = "Task not found." /\ Kept(out))
        /\ (HasTask(task_id) /\ ActiveIndexes(task_id) # {}) =>
              /\ out.resp.code = 400
              /\ out.resp.message = "An active Pomodoro timer already exists for this task."
              /\ Kept(out)
        /\ (HasTask(task_id) /\ ActiveIndexes(task_id) = {}) => Started(out, task_id)

\* a start was answered NotFound for a deleted task whose session is still active
StartOutcomesWitness ==
    /\ resp.op = "create_pomodoro"
    /\ resp.code = 404
    /\ \E i \in 1 .. Len(pomodoro_sessions) :
          ~pomodoro_sessions[i].completed /\ ~HasTask(pomodoro_sessions[i].task_id)

(* C7: a stop for a task_id with an active session sets completed = true   *)
(* and end_time = the clock reading of the stop on that one session, and   *)
(* changes no other session and no task; with no active session it is      *)
(* answered 400 "No active Pomodoro timer ..." and changes nothing.         *)
StopOutcomes ==
    \A task_id \in TaskIdInputs, t \in ClockReadings :
        LET out == stop_pomodoro(task_id, t) IN
        IF ActiveIndexes(task_id) = {}
        THEN /\ out.resp.code = 400
             /\ out.resp.message = "No active Pomodoro timer found for this task."
             /\ Kept(out)
        ELSE /\ out.resp.code = 200
             /\ out.tasks = tasks
             /\ Len(out.pomodoro_sessions) = Len(pomodoro_sessions)
             /\ \E i \in ActiveIndexes(task_id) :
                   /\ out.pomodoro_sessions[i].completed
                   /\ out.pomodoro_sessions[i].end_time = t
                   /\ out.pomodoro_sessions[i].task_id = task_id
                   /\ out.pomodoro_sessions[i].start_time = pomodoro_sessions[i].start_time
                   /\ \A j \in 1 .. Len(pomodoro_sessions) :
                         j # i => out.pomodoro_sessions[j] = pomodoro_sessions[j]

\* a session was stopped later than it started, another session is untouched
StopOutcomesWitness ==
    /\ resp.op = "stop_pomodoro"
    /\ resp.code = 200
    /\ Len(pomodoro_sessions) = 2
    /\ \E i \in 1 .. Len(pomodoro_sessions) :
          /\ pomodoro_sessions[i].completed
          /\ pomodoro_sessions[i].end_time = now
          /\ pomodoro_sessions[i].end_time > pomodoro_sessions[i].start_time

\* the sum of end_time - start_time over the sessions at the indexes S
RECURSIVE TotalTime(_)
TotalTime(S) ==
    IF S = {} THEN 0
    ELSE LET i == CHOOSE x \in S : TRUE
         IN (pomodoro_sessions[i].end_time - pomodoro_sessions[i].start_time)
            + TotalTime(S \ {i})

\* the task_ids of the sessions, whether their task is still held or not
SessionTaskIds == { pomodoro_sessions[i].task_id : i \in 1 .. Len(pomodoro_sessions) }

\* what the claim says Stats() returns in the current state
ExpectedStats ==
    [task_id \in { k \in SessionTaskIds : CompletedIndexes(k) # {} } |->
        [count |-> Cardinality(CompletedIndexes(task_id)),
         total_time |-> TotalTime(CompletedIndexes(task_id))]]

(* C8: Stats() returns a mapping whose keys are exactly the task_ids with  *)
(* a completed session; count is the number of completed sessions of the   *)
(* id and total_time the sum of end_time - start_time over them; active    *)
(* sessions add nothing and ids of deleted tasks stay.  The answer of      *)
(* GET /pomodoro/stats is that mapping.                                    *)
StatsAreCompletedSessions ==
    /\ pomodoro_stats(pomodoro_sessions) = ExpectedStats
    /\ resp.op = "get_pomodoro_stats" => (resp.code = 200 /\ resp.stats = ExpectedStats)

\* the answer counts two completed sessions of a deleted task, for one minute in all
StatsWitness ==
    /\ resp.op = "get_pomodoro_stats"
    /\ \E task_id \in DOMAIN resp.stats :
          /\ ~HasTask(task_id)
          /\ resp.stats[task_id].count = 2
          /\ resp.stats[task_id].total_time = 1

\* an active session is left out of the answer
StatsActiveWitness ==
    /\ resp.op = "get_pomodoro_stats"
    /\ \E i, j \in 1 .. Len(pomodoro_sessions) :
          /\ ~pomodoro_sessions[i].completed
          /\ pomodoro_sessions[j].completed
          /\ pomodoro_sessions[i].task_id \notin DOMAIN resp.stats
          /\ pomodoro_sessions[j].task_id \in DOMAIN resp.stats

\* the position of the first task with this id, 0 when there is none
FirstWithId(task_id) ==
    IF HasTask(task_id)
    THEN CHOOSE i \in 1 .. Len(tasks) :
            tasks[i].id = task_id /\ \A j \in 1 .. Len(tasks) : tasks[j].id = task_id => i <= j
    ELSE 0

(* C9: an update (with a schema-valid body) is answered NotFound when no   *)
(* task has the id, and DuplicateTitle when the title differs from the     *)
(* task's title and another task holds it; both change nothing.  Otherwise *)
(* it replaces title, description and status of the task, keeps its id and *)
(* its position, and changes no other task and no session.  Where ids are  *)
(* duplicated (C1) the task is the first one with the id.                  *)
UpdateOutcomes ==
    \A task_id \in TaskIdInputs, body \in ValidBodies :
        LET out == update_task(task_id, body.title, body.description, body.status)
            i == FirstWithId(task_id)
        IN
        IF i = 0
        THEN out.resp.code = 404 /\ out.resp.message = "Task not found." /\ Kept(out)
        ELSE IF body.title # tasks[i].title /\ TitleInUse(body.title)
        THEN /\ out.resp.code = 400
             /\ out.resp.message = "Task title must be unique."
             /\ Kept(out)
        ELSE /\ out.resp.code = 200
             /\ out.pomodoro_sessions = pomodoro_sessions
             /\ Len(out.tasks) = Len(tasks)
             /\ out.tasks[i].id = tasks[i].id
             /\ out.tasks[i].title = body.title
             /\ out.tasks[i].description = body.description
             /\ out.tasks[i].status = (IF body.status = <<>> THEN "TODO" ELSE body.status[1])
             /\ \A j \in 1 .. Len(tasks) : j # i => out.tasks[j] = tasks[j]
             /\ out.resp.tasks = <<out.tasks[i]>>

\* an update replaced status and description of one of two tasks
UpdateOutcomesWitness ==
    /\ resp.op = "update_task"
    /\ resp.code = 200
    /\ Len(tasks) = 2
    /\ \E i \in 1 .. 2 :
          /\ resp.tasks = <<tasks[i]>>
          /\ tasks[i].status = "done"
          /\ tasks[3 - i].status = "TODO"

\* an update was refused for a title that another task holds
UpdateRefusedWitness ==
    resp.op = "update_task" /\ resp.code = 400 /\ Len(tasks) = 2

(* C10: a successful delete removes exactly one task, the other tasks stay *)
(* unchanged and in order; a delete of an absent id is answered NotFound   *)
(* and changes nothing.  Violated where two tasks share the id (C1): the   *)
(* rebuild of the list drops both.                                         *)
DeleteRemovesOne ==
    \A task_id \in TaskIdInputs :
        LET out == delete_task(task_id) IN
        IF ~HasTask(task_id)
        THEN out.resp.code = 404 /\ out.resp.message = "Task not found." /\ out.tasks = tasks
        ELSE /\ out.resp.code = 200
             /\ Len(out.tasks) = Len(tasks) - 1
             /\ \E i \in 1 .. Len(tasks) :
                   /\ tasks[i].id = task_id
                   /\ out.tasks = SubSeq(tasks, 1, i - 1) \o SubSeq(tasks, i + 1, Len(tasks))

(* C11: a delete, answered 200 or 404, leaves pomodoro_sessions as it was: *)
(* the sessions of the deleted id stay, each with the same task_id,        *)
(* start_time, end_time and completed.                                     *)
DeleteKeepsSessions ==
    \A task_id \in TaskIdInputs :
        LET out == delete_task(task_id) IN
        /\ Len(out.pomodoro_sessions) = Len(pomodoro_sessions)
        /\ \A i \in 1 .. Len(pomodoro_sessions) :
              /\ out.pomodoro_sessions[i].task_id = pomodoro_sessions[i].task_id
              /\ out.pomodoro_sessions[i].start_time = pomodoro_sessions[i].start_time
              /\ out.pomodoro_sessions[i].end_time = pomodoro_sessions[i].end_time
              /\ out.pomodoro_sessions[i].completed = pomodoro_sessions[i].completed

\* a task that had a session was deleted and its session is still there
DeleteKeepsSessionsWitness ==
    /\ resp.op = "delete_task"
    /\ resp.code = 200
    /\ \E i \in 1 .. Len(pomodoro_sessions) : ~HasTask(pomodoro_sessions[i].task_id)

\* positions of the tasks with a status, and the k-th of a set of positions
PositionsWithStatus(status) == { i \in 1 .. Len(tasks) : tasks[i].status = status }

NthPosition(S, k) == CHOOSE i \in S : Cardinality({ j \in S : j <= i }) = k

(* C12: for each of the three statuses the filtered list holds exactly the *)
(* tasks with that status, each once and in the order of the collection;   *)
(* the list without a filter is the whole collection in order; a list      *)
(* request changes neither tasks nor pomodoro_sessions.                    *)
ListReturnsMatching ==
    /\ \A status \in Statuses :
          LET out == get_tasks(Some(status))
              S == PositionsWithStatus(status)
          IN /\ out.resp.code = 200
             /\ Len(out.resp.tasks) = Cardinality(S)
             /\ \A k \in 1 .. Len(out.resp.tasks) :
                   out.resp.tasks[k] = tasks[NthPosition(S, k)]
             /\ out.tasks = tasks
             /\ out.pomodoro_sessions = pomodoro_sessions
    /\ LET out == get_tasks(None)
       IN /\ out.resp.code = 200
          /\ out.resp.tasks = tasks
          /\ out.tasks = tasks
          /\ out.pomodoro_sessions = pomodoro_sessions

\* a filtered list was returned that holds the second of two tasks only
ListReturnsMatchingWitness ==
    /\ resp.op = "get_tasks"
    /\ resp.code = 200
    /\ Len(tasks) = 2
    /\ tasks[1].status # tasks[2].status
    /\ resp.tasks = <<tasks[2]>>

(* C13: after a successful delete of the task that holds a title, a create *)
(* with that title is answered 200 and not refused as a duplicate: in      *)
(* every step that is a successful delete of an id, a create with the      *)
(* title of each task of that id succeeds in the state the delete leaves.  *)
DeleteFreesTitle ==
    [][(resp'.op = "delete_task" /\ resp'.code = 200) =>
          \A task_id \in TaskIdInputs :
              (HasTask(task_id) /\ tasks' = delete_task(task_id).tasks) =>
                  \A title \in { tasks[i].title :
                                    i \in { k \in 1 .. Len(tasks) : tasks[k].id = task_id } } :
                      (create_task(title, None, None).resp.code = 200)']_vars

\* the task titled abc was deleted, another task stays, and abc can be created
DeleteFreesTitleWitness ==
    /\ resp.op = "delete_task"
    /\ resp.code = 200
    /\ Len(tasks) = 1
    /\ tasks[1].title = "report"
    /\ create_task("abc", None, None).resp.code = 200

(* C15: in every step pomodoro_sessions keeps its sessions in place: none  *)
(* is removed or moved, task_id and start_time of a session never change,  *)
(* a completed session stays completed; the list grows only by one active  *)
(* session appended by a successful start; completed turns true only in a  *)
(* successful stop for the task_id of that session.                        *)
SessionsOnlyGrow ==
    [][/\ Len(pomodoro_sessions') >= Len(pomodoro_sessions)
       /\ \A i \in 1 .. Len(pomodoro_sessions) :
             /\ pomodoro_sessions'[i].task_id = pomodoro_sessions[i].task_id
             /\ pomodoro_sessions'[i].start_time = pomodoro_sessions[i].start_time
             /\ pomodoro_sessions[i].completed => pomodoro_sessions'[i].completed
             /\ (~pomodoro_sessions[i].completed /\ pomodoro_sessions'[i].completed) =>
                   /\ resp'.op = "stop_pomodoro"
                   /\ resp'.code = 200
                   /\ \E t \in ClockReadings :
                         pomodoro_sessions' =
                             stop_pomodoro(pomodoro_sessions[i].task_id, t).pomodoro_sessions
       /\ Len(pomodoro_sessions') > Len(pomodoro_sessions) =>
             /\ Len(pomodoro_sessions') = Len(pomodoro_sessions) + 1
             /\ resp'.op = "create_pomodoro"
             /\ resp'.code = 200
             /\ pomodoro_sessions'[Len(pomodoro_sessions')].task_id = resp'.task_id
             /\ ~pomodoro_sessions'[Len(pomodoro_sessions')].completed]_vars

\* a stop completed the second of two sessions and the first is still active
SessionsOnlyGrowWitness ==
    /\ resp.op = "stop_pomodoro"
    /\ resp.code = 200
    /\ Len(pomodoro_sessions) = 2
    /\ ~pomodoro_sessions[1].completed
    /\ pomodoro_sessions[2].completed
    /\ pomodoro_sessions[2].end_time > pomodoro_sessions[2].start_time

(* C16: with a clock that never goes back, every active session ends 25    *)
(* minutes after its start and every completed session ends at the instant *)
(* of its stop, not before its start (the session a stop has just          *)
(* completed ends at the reading of that stop); so every total_time of     *)
(* the statistics is non-negative.                                         *)
SessionTimes ==
    /\ \A i \in 1 .. Len(pomodoro_sessions) :
          LET session == pomodoro_sessions[i] IN
          /\ session.start_time <= now
          /\ IF ~session.completed
             THEN session.end_time = session.start_time + PomodoroMinutes
             ELSE session.start_time <= session.end_time /\ session.end_time <= now
    /\ (resp.op = "stop_pomodoro" /\ resp.code = 200) =>
          \E i \in 1 .. Len(pomodoro_sessions) :
              pomodoro_sessions[i].completed /\ pomodoro_sessions[i].end_time = now
    /\ LET stats == pomodoro_stats(pomodoro_sessions)
       IN \A task_id \in DOMAIN stats : stats[task_id].total_time >= 0

\* a session stopped one minute after its start next to an active session
SessionTimesWitness ==
    /\ \E i, j \in 1 .. Len(pomodoro_sessions) :
          /\ pomodoro_sessions[i].completed
          /\ pomodoro_sessions[i].end_time = pomodoro_sessions[i].start_time + 1
          /\ ~pomodoro_sessions[j].completed
          /\ pomodoro_sessions[j].start_time = now
    /\ \E task_id \in DOMAIN pomodoro_stats(pomodoro_sessions) :
          pomodoro_stats(pomodoro_sessions)[task_id].total_time = 1

(* C17: right after a successful create that returned id i no session has  *)
(* task_id = i, so a start for i is answered 200 and the statistics have   *)
(* no entry for i.  Violated by the code: after a delete the id of the     *)
(* deleted task is handed out again (C1) and its sessions are still in     *)
(* the list.                                                               *)
CreatedIdHasNoSessions ==
    (resp.op = "create_task" /\ resp.code = 200) =>
        LET i == resp.tasks[1].id IN
        /\ \A k \in 1 .. Len(pomodoro_sessions) : pomodoro_sessions[k].task_id # i
        /\ \A t \in ClockReadings : create_pomodoro(i, t).resp.code = 200
        /\ i \notin DOMAIN pomodoro_stats(pomodoro_sessions)

(* C18: a task created with a title and returned with id i, and since then *)
(* neither updated nor deleted, is what a get of i returns, whatever was   *)
(* done to other tasks; stated for the task a create has just returned,    *)
(* to which nothing has been done since.  Violated by the code: the new    *)
(* task can get the id of a task still in the list (C1), and the get       *)
(* returns the first task with the id.                                     *)
GetReturnsCreated ==
    (resp.op = "create_task" /\ resp.code = 200) =>
        LET task == resp.tasks[1]
            out == get_task(task.id)
        IN /\ out.resp.code = 200
           /\ out.resp.tasks[1].title = task.title

(* C14: with two requests at a time and the test of a handler a step apart *)
(* from its append (SpecConcurrent), a request passes on to its append     *)
(* only if at its test no task held the title, or the task was there and   *)
(* had no active session, and the append then adds the task or the session *)
(* whatever the lists hold by then.  So two creates with one title both    *)
(* succeed and two starts for one task both succeed: the state of the      *)
(* witness, with two tasks of one title and two active sessions of one     *)
(* task_id, is reachable.                                                  *)
CheckThenAppend ==
    [][\A w \in Workers :
          /\ (pending[w] = Idle /\ pending'[w].op = "create_task") =>
                ~TitleInUse(pending'[w].title)
          /\ (pending[w] = Idle /\ pending'[w].op = "create_pomodoro") =>
                HasTask(pending'[w].task_id) /\ ActiveIndexes(pending'[w].task_id) = {}
          /\ (pending[w].op = "create_task" /\ pending'[w] = Idle) =>
                /\ Len(tasks') = Len(tasks) + 1
                /\ SubSeq(tasks', 1, Len(tasks)) = tasks
                /\ tasks'[Len(tasks')].title = pending[w].title
                /\ resp'.code = 200
          /\ (pending[w].op = "create_pomodoro" /\ pending'[w] = Idle) =>
                /\ Len(pomodoro_sessions') = Len(pomodoro_sessions) + 1
                /\ SubSeq(pomodoro_sessions', 1, Len(pomodoro_sessions)) = pomodoro_sessions
                /\ pomodoro_sessions'[Len(pomodoro_sessions')].task_id = pending[w].task_id
                /\ ~pomodoro_sessions'[Len(pomodoro_sessions')].completed
                /\ resp'.code = 200]_vars

\* two tasks hold one title and one task_id has two active sessions
ConcurrentDuplicatesWitness ==
    /\ \E i, j \in 1 .. Len(tasks) : i # j /\ tasks[i].title = tasks[j].title
    /\ \E task_id \in TaskIdInputs : Cardinality(ActiveIndexes(task_id)) = 2

====
